---------------------------- MODULE Spec2Model ----------------------------
(***************************************************************************)
(* cargo-ghannotate: the annotation model (src/src/github.rs), the two     *)
(* record formats (src/src/cargo/rustc.rs, src/src/cargo/rustfmt.rs), the  *)
(* summary writers (src/src/cargo.rs) and the driver loop of main          *)
(* (src/src/main.rs).                                                      *)
(*                                                                         *)
(* Text is modelled as a sequence of one-character strings, so that        *)
(* trimming, replacing and formatting are computed character by character. *)
(* Option<T> is modelled as a sequence: None is << >>, Some(v) is <<v>>.   *)
(***************************************************************************)
EXTENDS Integers, Sequences, FiniteSets, TLC

(***************************************************************************)
(* Bounds of the model.                                                    *)
(***************************************************************************)
\* Most lines of captured output a run reads.
MaxLines == 2
\* Longest message drawn for the formatting specification.
MaxMsgLen == 4

(***************************************************************************)
(* String literals of the source.                                          *)
(***************************************************************************)
NL == "\n"
CR == "\r"
SP == " "
\* The grave accent (U+0060), which a TLA+ string literal cannot hold.
BT == "grave"

\* "::"
ColonColon ==
    <<":", ":">>

\* " file="
FileEq ==
    <<" ", "f", "i", "l", "e", "=">>

\* ",line="
LineEq ==
    <<",", "l", "i", "n", "e", "=">>

\* ",endLine="
EndLineEq ==
    <<",", "e", "n", "d", "L", "i", "n", "e", "=">>

\* ",col="
ColEq ==
    <<",", "c", "o", "l", "=">>

\* ",endColumn="
EndColumnEq ==
    <<",", "e", "n", "d", "C", "o", "l", "u", "m", "n", "=">>

\* ",title="
TitleEq ==
    <<",", "t", "i", "t", "l", "e", "=">>

\* "%25"
Pct25 ==
    <<"%", "2", "5">>

\* "%0A"
Pct0A ==
    <<"%", "0", "A">>

\* "%0D"
Pct0D ==
    <<"%", "0", "D">>

\* "notice"
NoticeToken ==
    <<"n", "o", "t", "i", "c", "e">>

\* "warning"
WarningToken ==
    <<"w", "a", "r", "n", "i", "n", "g">>

\* "error"
ErrorToken ==
    <<"e", "r", "r", "o", "r">>

\* ":information_source:"
NoticeEmoji ==
    <<":", "i", "n", "f", "o", "r", "m", "a", "t", "i", "o", "n", "_", "s", "o", "u", "r",
    "c", "e", ":">>

\* ":warning:"
WarningEmoji ==
    <<":", "w", "a", "r", "n", "i", "n", "g", ":">>

\* ":x:"
ErrorEmoji ==
    <<":", "x", ":">>

\* "Notice"
NoticeDebug ==
    <<"N", "o", "t", "i", "c", "e">>

\* "Warning"
WarningDebug ==
    <<"W", "a", "r", "n", "i", "n", "g">>

\* "Error"
ErrorDebug ==
    <<"E", "r", "r", "o", "r">>

\* "> **TOTAL:** "
TotalPrefix ==
    <<">", " ", "*", "*", "T", "O", "T", "A", "L", ":", "*", "*", " ">>

\* "|Level|Message|Location|"
TableHeader ==
    <<"|", "L", "e", "v", "e", "l", "|", "M", "e", "s", "s", "a", "g", "e", "|", "L", "o",
    "c", "a", "t", "i", "o", "n", "|">>

\* "|:--|:--|--:|"
TableRule ==
    <<"|", ":", "-", "-", "|", ":", "-", "-", "|", "-", "-", ":", "|">>

\* " mismatches"
MismatchesSuffix ==
    <<" ", "m", "i", "s", "m", "a", "t", "c", "h", "e", "s">>

\* "Format mismatch"
FormatMismatchTitle ==
    <<"F", "o", "r", "m", "a", "t", " ", "m", "i", "s", "m", "a", "t", "c", "h">>

\* "- (BT)"
FileItemPrefix ==
    <<"-", " ", BT>>

\* "  - L"
LineItemPrefix ==
    <<" ", " ", "-", " ", "L">>

\* "src/a.rs"
SrcA ==
    <<"s", "r", "c", "/", "a", ".", "r", "s">>

\* "src//a.rs"
SrcASlash ==
    <<"s", "r", "c", "/", "/", "a", ".", "r", "s">>

\* "src/b.rs"
SrcB ==
    <<"s", "r", "c", "/", "b", ".", "r", "s">>

\* "/w/src/a.rs"
AbsSrcA ==
    <<"/", "w", "/", "s", "r", "c", "/", "a", ".", "r", "s">>

\* "/w/src/b.rs"
AbsSrcB ==
    <<"/", "w", "/", "s", "r", "c", "/", "b", ".", "r", "s">>

\* "unused variable"
MsgUnused ==
    <<"u", "n", "u", "s", "e", "d", " ", "v", "a", "r", "i", "a", "b", "l", "e">>

\* "dead code"
MsgDead ==
    <<"d", "e", "a", "d", " ", "c", "o", "d", "e">>

\* " warning: 100% unused\r\n --> src/a.rs\n"
RenderedUnused ==
    <<" ", "w", "a", "r", "n", "i", "n", "g", ":", " ", "1", "0", "0", "%", " ", "u", "n",
    "u", "s", "e", "d", "\r", "\n", " ", "-", "-", ">", " ", "s", "r", "c", "/", "a", ".",
    "r", "s", "\n">>

\* "fn x() {}\n"
ExpectedX ==
    <<"f", "n", " ", "x", "(", ")", " ", "{", "}", "\n">>

\* "  let y = 1;"
ExpectedY ==
    <<" ", " ", "l", "e", "t", " ", "y", " ", "=", " ", "1", ";">>

\* "::warning file=src/a.rs,line=3,col=1,endColumn=5::unused variable"
ScenarioALineClaimed ==
    <<":", ":", "w", "a", "r", "n", "i", "n", "g", " ", "f", "i", "l", "e", "=", "s", "r",
    "c", "/", "a", ".", "r", "s", ",", "l", "i", "n", "e", "=", "3", ",", "c", "o", "l",
    "=", "1", ",", "e", "n", "d", "C", "o", "l", "u", "m", "n", "=", "5", ":", ":", "u",
    "n", "u", "s", "e", "d", " ", "v", "a", "r", "i", "a", "b", "l", "e">>

\* "::warning file=src/a.rs,line=3,endLine=3,col=1,endColumn=5::unused variable"
ScenarioALineEmitted ==
    <<":", ":", "w", "a", "r", "n", "i", "n", "g", " ", "f", "i", "l", "e", "=", "s", "r",
    "c", "/", "a", ".", "r", "s", ",", "l", "i", "n", "e", "=", "3", ",", "e", "n", "d",
    "L", "i", "n", "e", "=", "3", ",", "c", "o", "l", "=", "1", ",", "e", "n", "d", "C",
    "o", "l", "u", "m", "n", "=", "5", ":", ":", "u", "n", "u", "s", "e", "d", " ", "v",
    "a", "r", "i", "a", "b", "l", "e">>

(***************************************************************************)
(* Generic text helpers (std behaviour the source relies on).              *)
(***************************************************************************)
None == << >>
Some(v) == <<v>>
IsSome(o) == Len(o) = 1
Unwrap(o) == o[1]

RECURSIVE Concat(_)
\* Concatenation of a sequence of texts.
Concat(parts) ==
    IF parts = << >> THEN << >> ELSE Head(parts) \o Concat(Tail(parts))

\* char::is_whitespace, on the characters of the model.
IsWhitespace(c) == c \in {SP, NL, CR, "\t"}

RECURSIVE TrimStart(_)
TrimStart(s) ==
    IF s # << >> /\ IsWhitespace(Head(s)) THEN TrimStart(Tail(s)) ELSE s

RECURSIVE TrimEnd(_)
TrimEnd(s) ==
    IF s # << >> /\ IsWhitespace(s[Len(s)])
    THEN TrimEnd(SubSeq(s, 1, Len(s) - 1))
    ELSE s

\* str::trim
Trim(s) == TrimEnd(TrimStart(s))

RECURSIVE Replace(_, _, _)
\* str::replace(from: char, to: &str): every occurrence, left to right.
Replace(s, from, to) ==
    IF s = << >> THEN << >>
    ELSE (IF Head(s) = from THEN to ELSE <<Head(s)>>) \o Replace(Tail(s), from, to)

\* Whether text s starts with text p.
StartsWith(s, p) == Len(s) >= Len(p) /\ SubSeq(s, 1, Len(p)) = p

RECURSIVE TrimStartMatches(_, _)
\* str::trim_start_matches(pat): strips every repeated leading match of pat.
TrimStartMatches(s, pat) ==
    IF pat # << >> /\ StartsWith(s, pat)
    THEN TrimStartMatches(SubSeq(s, Len(pat) + 1, Len(s)), pat)
    ELSE s

DigitChar(d) == <<"0", "1", "2", "3", "4", "5", "6", "7", "8", "9">>[d + 1]

RECURSIVE Decimal(_)
\* Display of a usize.
Decimal(n) ==
    IF n < 10 THEN <<DigitChar(n)>> ELSE Decimal(n \div 10) \o <<DigitChar(n % 10)>>

\* The byte of a character (ASCII), for the characters file names of the model use.
CharCode(c) ==
    CASE c = "." -> 46
      [] c = "/" -> 47
      [] c = "a" -> 97
      [] c = "b" -> 98
      [] c = "c" -> 99
      [] c = "r" -> 114
      [] c = "s" -> 115
      [] c = "w" -> 119
      [] OTHER -> 63

\* Ordering as -1 (Less), 0 (Equal), 1 (Greater).
CmpInt(a, b) == IF a < b THEN -1 ELSE IF a > b THEN 1 ELSE 0

\* Ordering::then_with
ThenWith(o, next) == IF o # 0 THEN o ELSE next

\* Ordering::reverse
Reverse(o) == 0 - o

RECURSIVE CmpBytes(_, _)
\* Lexicographic comparison of two byte strings.
CmpBytes(a, b) ==
    IF a = << >> /\ b = << >> THEN 0
    ELSE IF a = << >> THEN -1
    ELSE IF b = << >> THEN 1
    ELSE ThenWith(CmpInt(CharCode(Head(a)), CharCode(Head(b))),
                  CmpBytes(Tail(a), Tail(b)))

\* Option<usize>::cmp: None before Some, then by value.
CmpOption(a, b) ==
    IF ~IsSome(a) /\ ~IsSome(b) THEN 0
    ELSE IF ~IsSome(a) THEN -1
    ELSE IF ~IsSome(b) THEN 1
    ELSE CmpInt(Unwrap(a), Unwrap(b))

RECURSIVE Split(_, _)
\* The pieces of s between occurrences of the separator character.
Split(s, sep) ==
    IF \A i \in 1..Len(s) : s[i] # sep THEN <<s>>
    ELSE LET i == CHOOSE k \in 1..Len(s) :
                    s[k] = sep /\ \A j \in 1..(k - 1) : s[j] # sep
         IN <<SubSeq(s, 1, i - 1)>> \o Split(SubSeq(s, i + 1, Len(s)), sep)

\* std::path::Component's derived Ord: the variants in declaration order.
ComponentRank(tag) ==
    CASE tag = "RootDir" -> 1
      [] tag = "CurDir" -> 2
      [] tag = "ParentDir" -> 3
      [] tag = "Normal" -> 4

RECURSIVE SegmentComponents(_, _)
\* Path::components over the "/"-separated pieces: empty pieces and "." pieces
\* are dropped, except a "." that opens a relative path.
SegmentComponents(segs, leading) ==
    IF segs = << >> THEN << >>
    ELSE LET seg == Head(segs)
             rest == SegmentComponents(Tail(segs), FALSE)
         IN IF seg = << >> THEN rest
            ELSE IF seg = <<".">>
                 THEN (IF leading THEN <<[tag |-> "CurDir", name |-> << >>]>> ELSE << >>)
                      \o rest
            ELSE IF seg = <<".", ".">>
                 THEN <<[tag |-> "ParentDir", name |-> << >>]>> \o rest
            ELSE <<[tag |-> "Normal", name |-> seg]>> \o rest

\* Path::new(s).components()
Components(s) ==
    IF s # << >> /\ Head(s) = "/"
    THEN <<[tag |-> "RootDir", name |-> << >>]>>
         \o SegmentComponents(Split(Tail(s), "/"), FALSE)
    ELSE SegmentComponents(Split(s, "/"), TRUE)

RECURSIVE CmpComponents(_, _)
CmpComponents(a, b) ==
    IF a = << >> /\ b = << >> THEN 0
    ELSE IF a = << >> THEN -1
    ELSE IF b = << >> THEN 1
    ELSE ThenWith(ThenWith(CmpInt(ComponentRank(Head(a).tag), ComponentRank(Head(b).tag)),
                           CmpBytes(Head(a).name, Head(b).name)),
                  CmpComponents(Tail(a), Tail(b)))

\* Path::cmp: component by component.
PathCmp(a, b) == CmpComponents(Components(a), Components(b))

(***************************************************************************)
(* github.rs: AnnotationKind and Annotation.                               *)
(***************************************************************************)
\* enum AnnotationKind { Notice, Warning, Error }: derived Ord follows the
\* declaration order.
Notice == 0
Warning == 1
Error == 2
AnnotationKind == {Notice, Warning, Error}

\* #[serde(rename_all = "lowercase")] Serialize of AnnotationKind.
KindToken(kind) ==
    CASE kind = Notice -> NoticeToken
      [] kind = Warning -> WarningToken
      [] kind = Error -> ErrorToken

\* AnnotationKind::emoji
emoji(kind) ==
    CASE kind = Notice -> NoticeEmoji
      [] kind = Warning -> WarningEmoji
      [] kind = Error -> ErrorEmoji

\* derive(Debug) of AnnotationKind
KindDebug(kind) ==
    CASE kind = Notice -> NoticeDebug
      [] kind = Warning -> WarningDebug
      [] kind = Error -> ErrorDebug

\* impl Display for AnnotationKind: "{emoji} {self:?}"
KindDisplay(kind) == emoji(kind) \o <<SP>> \o KindDebug(kind)

\* struct Annotation
Annotation(kind, file, line, end_line, col, end_column, title, message) ==
    [kind |-> kind, file |-> file, line |-> line, end_line |-> end_line,
     col |-> col, end_column |-> end_column, title |-> title, message |-> message]

\* Annotation::to_owned: a copy with owned strings, equal field by field.
to_owned(a) ==
    Annotation(a.kind, a.file, a.line, a.end_line, a.col, a.end_column, a.title,
               a.message)

\* AnnotationKind::cmp (derived)
KindCmp(a, b) == CmpInt(a, b)

\* Ord::max on AnnotationKind
KindMax(a, b) == IF KindCmp(b, a) >= 0 THEN b ELSE a

\* impl Ord for Annotation: file as a path, line, col, then kind reversed.
cmp(self, other) ==
    ThenWith(PathCmp(self.file, other.file),
    ThenWith(CmpInt(self.line, other.line),
    ThenWith(CmpOption(self.col, other.col),
             Reverse(KindCmp(self.kind, other.kind)))))

\* A variant of EncodeMessage that replaces "%" last, after the escapes of newline
\* and carriage return were introduced.
EncodeMessagePercentLast(message) ==
    Replace(Replace(Replace(Trim(message), NL, Pct0A), CR, Pct0D), "%", Pct25)

\* The message part of the wire line: trim, then "%", "\n", "\r" in this order.
EncodeMessage(message) ==
    Replace(Replace(Replace(Trim(message), "%", Pct25), NL, Pct0A), CR, Pct0D)

\* impl Display for Annotation
fmt(self) ==
    Concat(<<
        ColonColon, KindToken(self.kind),
        FileEq, self.file, LineEq, Decimal(self.line),
        IF IsSome(self.end_line) THEN EndLineEq \o Decimal(Unwrap(self.end_line))
        ELSE << >>,
        IF IsSome(self.col)
        THEN ColEq \o Decimal(Unwrap(self.col))
             \o (IF IsSome(self.end_column)
                 THEN EndColumnEq \o Decimal(Unwrap(self.end_column))
                 ELSE << >>)
        ELSE << >>,
        IF IsSome(self.title) THEN TitleEq \o Unwrap(self.title) ELSE << >>,
        ColonColon, EncodeMessage(self.message) >>)

\* BTreeSet<Annotation>::insert: the set holds no two elements that compare Equal;
\* an element that compares Equal to one held is not added and false is returned.
BTreeContains(set, a) == \E b \in set : cmp(a, b) = 0
BTreeInsert(set, a) == IF BTreeContains(set, a) THEN set ELSE set \cup {a}

(***************************************************************************)
(* cargo/rustc.rs: Diagnostic, DiagnosticSummary, DiagnosticSummaryWriter. *)
(***************************************************************************)
\* enum DiagnosticLevel, by its serialized names.
DiagnosticLevel ==
    {"error", "warning", "note", "help", "failure-note",
     "error: internal compiler error"}

\* impl From<DiagnosticLevel> for AnnotationKind
KindFromLevel(level) ==
    CASE level \in {"error", "error: internal compiler error"} -> Error
      [] level = "warning" -> Warning
      [] level \in {"note", "help", "failure-note"} -> Notice

\* struct DiagnosticSpan
DiagnosticSpan(file_name, line_start, line_end, column_start, column_end, is_primary) ==
    [file_name |-> file_name, line_start |-> line_start, line_end |-> line_end,
     column_start |-> column_start, column_end |-> column_end,
     is_primary |-> is_primary]

\* struct Diagnostic
Diagnostic(message, level, spans, rendered) ==
    [type |-> "Diagnostic", message |-> message, level |-> level, spans |-> spans,
     rendered |-> rendered]

\* self.spans.iter().find(|span| span.is_primary)
FindPrimary(spans) ==
    IF \E i \in 1..Len(spans) : spans[i].is_primary
    THEN Some(spans[CHOOSE i \in 1..Len(spans) :
                        /\ spans[i].is_primary
                        /\ \A j \in 1..(i - 1) : ~spans[j].is_primary])
    ELSE None

\* A variant of DiagnosticAnnotation that always titles the annotation with the
\* message, whether or not a rendered text is present.
DiagnosticAnnotationAlwaysTitled(self, primary_span) ==
    Annotation(KindFromLevel(self.level),
               primary_span.file_name,
               primary_span.line_start,
               Some(primary_span.line_end),
               Some(primary_span.column_start),
               Some(primary_span.column_end),
               Some(self.message),
               IF IsSome(self.rendered) THEN Unwrap(self.rendered) ELSE self.message)

\* The annotation built from a diagnostic and its primary span.
DiagnosticAnnotation(self, primary_span) ==
    Annotation(KindFromLevel(self.level),
               primary_span.file_name,
               primary_span.line_start,
               Some(primary_span.line_end),
               Some(primary_span.column_start),
               Some(primary_span.column_end),
               IF IsSome(self.rendered) THEN Some(self.message) ELSE None,
               IF IsSome(self.rendered) THEN Unwrap(self.rendered) ELSE self.message)

\* A variant of Diagnostic::into_annotations that yields no annotation, instead of
\* panicking, when no span is primary.
Diagnostic_into_annotations_skipping(self) ==
    [panicked |-> FALSE,
     annotations |->
        IF \E i \in 1..Len(self.spans) : self.spans[i].is_primary
        THEN <<[kind |-> KindFromLevel(self.level),
                file |-> Unwrap(FindPrimary(self.spans)).file_name,
                line |-> Unwrap(FindPrimary(self.spans)).line_start,
                end_line |-> Some(Unwrap(FindPrimary(self.spans)).line_end),
                col |-> Some(Unwrap(FindPrimary(self.spans)).column_start),
                end_column |-> Some(Unwrap(FindPrimary(self.spans)).column_end),
                title |-> IF IsSome(self.rendered) THEN Some(self.message) ELSE None,
                message |-> IF IsSome(self.rendered) THEN Unwrap(self.rendered)
                            ELSE self.message]>>
        ELSE << >>]

\* Diagnostic::into_annotations: panics ("Missing primary span") when no span is
\* primary, else yields one annotation.
Diagnostic_into_annotations(self) ==
    LET primary_span == FindPrimary(self.spans)
    IN IF IsSome(primary_span)
       THEN [panicked |-> FALSE,
             annotations |-> <<DiagnosticAnnotation(self, Unwrap(primary_span))>>]
       ELSE [panicked |-> TRUE, annotations |-> << >>]

\* impl From<&Diagnostic> for DiagnosticSummary
DiagnosticSummary(message) ==
    [level |-> message.level,
     message |-> message.message,
     location |->
        LET primary_span == FindPrimary(message.spans)
        IN IF IsSome(primary_span)
           THEN Some(<<Unwrap(primary_span).file_name, Unwrap(primary_span).line_start>>)
           ELSE None]

\* Diagnostic::summarize
Diagnostic_summarize(self) == <<DiagnosticSummary(self)>>

\* DiagnosticSummaryWriter::default(): every count reads as 0.
DiagnosticSummaryWriter_default == [kind_count |-> [k \in AnnotationKind |-> 0]]

\* DiagnosticSummaryWriter::write_summary: one more of the kind, one table row.
DiagnosticSummaryWriter_write_summary(self, summary, content) ==
    LET kind == KindFromLevel(summary.level)
        location ==
            IF IsSome(summary.location)
            THEN <<BT>> \o Unwrap(summary.location)[1] \o <<":">>
                 \o Decimal(Unwrap(summary.location)[2]) \o <<BT>>
            ELSE << >>
    IN [writer |-> [self EXCEPT !.kind_count[kind] = @ + 1],
        content |-> Append(content,
                           <<"|">> \o KindDisplay(kind) \o <<"|">> \o summary.message
                           \o <<"|">> \o location \o <<"|">>)]

\* DiagnosticSummaryWriter::write_preamble: the totals, then the table header.
DiagnosticSummaryWriter_write_preamble(self) ==
    << Concat(<<TotalPrefix,
                Decimal(self.kind_count[Error]), <<SP>>, KindDisplay(Error), <<"s", ",", SP>>,
                Decimal(self.kind_count[Warning]), <<SP>>, KindDisplay(Warning), <<"s", ",", SP>>,
                Decimal(self.kind_count[Notice]), <<SP>>, KindDisplay(Notice), <<"s", NL>> >>),
       TableHeader,
       TableRule >>

(***************************************************************************)
(* cargo/rustfmt.rs: FormatMismatches, FormatMismatchesSummary and         *)
(* FormatMismatchSummaryWriter.                                            *)
(***************************************************************************)
\* std::env::current_dir() of the run.
CurrentDir == <<"/", "w">>

\* struct FormatMismatch
FormatMismatch(original_begin_line, original_end_line, expected) ==
    [original_begin_line |-> original_begin_line,
     original_end_line |-> original_end_line,
     expected |-> expected]

\* struct FormatMismatches
FormatMismatches(name, mismatches) == [name |-> name, mismatches |-> mismatches]

\* The whole array a line of rustfmt output parses to.
FormatMismatchesArray(files) == [type |-> "FormatMismatches", files |-> files]

\* name.trim_start_matches(current_dir).trim_start_matches('/')
RelativeName(name) == TrimStartMatches(TrimStartMatches(name, CurrentDir), <<"/">>)

\* The annotation of one mismatch of a file.
MismatchAnnotation(mismatches, mismatch) ==
    Annotation(Warning,
               RelativeName(mismatches.name),
               mismatch.original_begin_line,
               Some(mismatch.original_end_line),
               None,
               None,
               Some(FormatMismatchTitle),
               mismatch.expected)

RECURSIVE FlatMapMismatches(_)
FlatMapMismatches(files) ==
    IF files = << >> THEN << >>
    ELSE [i \in 1..Len(Head(files).mismatches) |->
              MismatchAnnotation(Head(files), Head(files).mismatches[i])]
         \o FlatMapMismatches(Tail(files))

\* Vec<FormatMismatches>::into_annotations: never panics.
FormatMismatches_into_annotations(self) ==
    [panicked |-> FALSE, annotations |-> FlatMapMismatches(self.files)]

\* impl From<&FormatMismatches> for FormatMismatchesSummary
FormatMismatchesSummary(message) ==
    [file |-> RelativeName(message.name),
     lines |-> [i \in 1..Len(message.mismatches) |->
                    message.mismatches[i].original_begin_line]]

\* Vec<FormatMismatches>::summarize: one summary per file entry.
FormatMismatches_summarize(self) ==
    [i \in 1..Len(self.files) |-> FormatMismatchesSummary(self.files[i])]

\* FormatMismatchSummaryWriter::default()
FormatMismatchSummaryWriter_default == [count |-> 0]

\* FormatMismatchSummaryWriter::write_summary: the file heading, then its lines.
FormatMismatchSummaryWriter_write_summary(self, summary, content) ==
    [writer |-> [self EXCEPT !.count = @ + Len(summary.lines)],
     content |-> content
                 \o <<FileItemPrefix \o summary.file \o <<BT>> >>
                 \o [i \in 1..Len(summary.lines) |->
                        LineItemPrefix \o Decimal(summary.lines[i])]]

\* FormatMismatchSummaryWriter::write_preamble
FormatMismatchSummaryWriter_write_preamble(self) ==
    << Concat(<<TotalPrefix, Decimal(self.count), MismatchesSuffix, <<NL>> >>) >>

(***************************************************************************)
(* cargo.rs: the two traits, dispatched on the subcommand of the run.      *)
(* "rustc" stands for check, clippy and build; "fmt" for fmt.              *)
(***************************************************************************)
Commands == {"rustc", "fmt"}

\* $parse(line): serde_json::from_str::<Diagnostic> or ::<Vec<FormatMismatches>>;
\* a line of any other shape is an Err.
Parse(command, line) ==
    IF command = "rustc" /\ line.type = "Diagnostic" THEN Some(line)
    ELSE IF command = "fmt" /\ line.type = "FormatMismatches" THEN Some(line)
    ELSE None

\* HandleMessage::into_annotations
into_annotations(command, message) ==
    IF command = "rustc" THEN Diagnostic_into_annotations(message)
    ELSE FormatMismatches_into_annotations(message)

\* HandleMessage::summarize
summarize(command, message) ==
    IF command = "rustc" THEN Diagnostic_summarize(message)
    ELSE FormatMismatches_summarize(message)

\* <$summary_writer>::default()
SummaryWriter_default(command) ==
    IF command = "rustc" THEN DiagnosticSummaryWriter_default
    ELSE FormatMismatchSummaryWriter_default

\* SummaryWriter::write_summary
write_summary(command, self, summary, content) ==
    IF command = "rustc" THEN DiagnosticSummaryWriter_write_summary(self, summary, content)
    ELSE FormatMismatchSummaryWriter_write_summary(self, summary, content)

\* SummaryWriter::write_preamble
write_preamble(command, self) ==
    IF command = "rustc" THEN DiagnosticSummaryWriter_write_preamble(self)
    ELSE FormatMismatchSummaryWriter_write_preamble(self)

\* SummaryWriter::write_postamble: the default method, which writes nothing.
write_postamble(command, self) == << >>

(***************************************************************************)
(* main.rs: the driver loop (handle_message!) and the exit code.           *)
(***************************************************************************)
VARIABLES
    command,              \* cli.command: "rustc" (check, clippy, build) or "fmt"
    allow_warnings,       \* cli.allow_warnings
    input,                \* the lines of cargo.stdout, captured before the loop
    pos,                  \* index of the next line the loop reads
    pc,                   \* where main is: "loop", "panicked", "preamble", "content",
                          \* "postamble", "exit", "done"
    annotations_buf,      \* the BTreeSet of annotations inserted so far
    stdout,               \* the payloads of the writeln! calls on stdout, in order
    max_annotation,       \* highest kind among the emitted annotations
    summary_content,      \* the payloads of the writeln! calls on summary_content
    summary_writer,       \* the summary writer's counters
    write_summary_calls,  \* number of write_summary calls so far
    sink_opens,           \* number of File::create calls that succeeded
    file,                 \* the payloads written to the summary file, in order
    exit_code             \* "none" until main returns, then "FAILURE" or "SUCCESS"

vars ==
    <<command, allow_warnings, input, pos, pc, annotations_buf, stdout,
      max_annotation, summary_content, summary_writer, write_summary_calls,
      sink_opens, file, exit_code>>

\* The state of one run of the loop, as the loop body reads and writes it.
RunState(buf, out, max, content, writer, calls, panicked) ==
    [annotations_buf |-> buf, stdout |-> out, max_annotation |-> max,
     summary_content |-> content, summary_writer |-> writer,
     write_summary_calls |-> calls, panicked |-> panicked]

\* The locals of main before the first line is read.
InitialRun(cmd) ==
    RunState({}, << >>, Notice, << >>, SummaryWriter_default(cmd), 0, FALSE)

\* if annotations_buf.insert(annotation.to_owned()) { writeln!; max; write_summaries }
InsertAnnotation(st, annotation) ==
    IF BTreeContains(st.run.annotations_buf, to_owned(annotation))
    THEN st
    ELSE [run |-> [st.run EXCEPT
                     !.annotations_buf = BTreeInsert(@, to_owned(annotation)),
                     !.stdout = Append(@, fmt(annotation)),
                     !.max_annotation = KindMax(@, annotation.kind)],
          write_summaries |-> TRUE]

RECURSIVE InsertAnnotations(_, _)
\* for annotation in message.into_annotations() { ... }
InsertAnnotations(st, annotations) ==
    IF annotations = << >> THEN st
    ELSE InsertAnnotations(InsertAnnotation(st, Head(annotations)), Tail(annotations))

RECURSIVE WriteSummaries(_, _, _)
\* summaries.into_iter().for_each(|summary| summary_writer.write_summary(..))
WriteSummaries(cmd, run, summaries) ==
    IF summaries = << >> THEN run
    ELSE LET w == write_summary(cmd, run.summary_writer, Head(summaries),
                                run.summary_content)
         IN WriteSummaries(cmd,
                           [run EXCEPT !.summary_writer = w.writer,
                                       !.summary_content = w.content,
                                       !.write_summary_calls = @ + 1],
                           Tail(summaries))

\* A variant of HandleLine that writes the summaries of every record, whether or
\* not one of its annotations was new.
HandleLineUngated(cmd, run, line) ==
    LET parsed == Parse(cmd, line)
    IN IF ~IsSome(parsed) THEN run
       ELSE LET message == Unwrap(parsed)
                summaries == summarize(cmd, message)
                converted == into_annotations(cmd, message)
            IN IF converted.panicked THEN [run EXCEPT !.panicked = TRUE]
               ELSE WriteSummaries(cmd,
                                   InsertAnnotations(
                                       [run |-> run, write_summaries |-> FALSE],
                                       converted.annotations).run,
                                   summaries)

\* The body of the loop for one line: parse it (an Err skips the line), take the
\* summaries, insert and emit the annotations, and fold the summaries in when at
\* least one annotation was new. A panic of into_annotations ends the run.
HandleLine(cmd, run, line) ==
    LET parsed == Parse(cmd, line)
    IN IF ~IsSome(parsed) THEN run
       ELSE LET message == Unwrap(parsed)
                summaries == summarize(cmd, message)
                converted == into_annotations(cmd, message)
            IN IF converted.panicked THEN [run EXCEPT !.panicked = TRUE]
               ELSE LET after == InsertAnnotations(
                                     [run |-> run, write_summaries |-> FALSE],
                                     converted.annotations)
                    IN IF after.write_summaries
                       THEN WriteSummaries(cmd, after.run, summaries)
                       ELSE after.run

RECURSIVE RunLines(_, _, _)
\* The loop over a whole sequence of lines; it stops at a panic.
RunLines(cmd, run, lines) ==
    IF lines = << >> \/ run.panicked THEN run
    ELSE RunLines(cmd, HandleLine(cmd, run, Head(lines)), Tail(lines))

\* The run state held by the variables.
CurrentRun ==
    RunState(annotations_buf, stdout, max_annotation, summary_content,
             summary_writer, write_summary_calls, pc = "panicked")

\* annotation_threshold
annotation_threshold == IF allow_warnings THEN Error ELSE Warning

(***************************************************************************)
(* The captured output the model reads.                                    *)
(***************************************************************************)
\* A line that is no JSON of the expected shape (a tool preamble, a blank line).
TextLine == [type |-> "text"]

SpanA == DiagnosticSpan(SrcA, 3, 3, 1, 5, TRUE)
SpanASlash == DiagnosticSpan(SrcASlash, 3, 3, 1, 5, TRUE)
SpanAWide == DiagnosticSpan(SrcA, 3, 4, 1, 9, TRUE)
SpanB == DiagnosticSpan(SrcB, 12, 12, 1, 1, TRUE)
SpanSecondary == DiagnosticSpan(SrcB, 7, 7, 2, 4, FALSE)

\* The diagnostic of end-to-end scenario A.
DiagA == Diagnostic(MsgUnused, "warning", <<SpanA>>, None)
\* The same diagnostic with its rendered text, after a secondary span.
DiagARendered ==
    Diagnostic(MsgUnused, "warning", <<SpanSecondary, SpanA>>, Some(RenderedUnused))
\* Other diagnostics at the start of the same span.
DiagDead == Diagnostic(MsgDead, "warning", <<SpanAWide>>, None)
DiagNote == Diagnostic(MsgDead, "note", <<SpanA>>, None)
DiagASlash == Diagnostic(MsgUnused, "warning", <<SpanASlash>>, None)
\* Diagnostics elsewhere.
DiagError == Diagnostic(MsgDead, "error", <<SpanB>>, None)
DiagHelp == Diagnostic(MsgUnused, "help", <<SpanB>>, None)
\* A diagnostic none of whose spans is primary.
DiagNoPrimary == Diagnostic(MsgDead, "error", <<SpanSecondary>>, None)

DiagnosticLines ==
    {TextLine, DiagA, DiagARendered, DiagDead, DiagNote, DiagASlash, DiagError,
     DiagHelp, DiagNoPrimary}

MismatchA35 == FormatMismatch(3, 5, ExpectedX)
MismatchA46 == FormatMismatch(4, 6, ExpectedY)
MismatchA37 == FormatMismatch(3, 7, ExpectedY)
MismatchB == FormatMismatch(1, 1, ExpectedX)

FormatLines ==
    {TextLine,
     FormatMismatchesArray(<< >>),
     FormatMismatchesArray(<<FormatMismatches(AbsSrcA, <<MismatchA35>>)>>),
     FormatMismatchesArray(<<FormatMismatches(AbsSrcA, <<MismatchA35, MismatchA46>>)>>),
     FormatMismatchesArray(<<FormatMismatches(AbsSrcA, <<MismatchA35, MismatchA37>>)>>),
     FormatMismatchesArray(<<FormatMismatches(AbsSrcA, <<MismatchA35>>),
                             FormatMismatches(SrcA, <<MismatchA46>>)>>),
     FormatMismatchesArray(<<FormatMismatches(AbsSrcA, <<MismatchA46>>),
                             FormatMismatches(AbsSrcB, <<MismatchB>>)>>),
     FormatMismatchesArray(<<FormatMismatches(AbsSrcB, <<MismatchB>>)>>)}

\* The lines a run of the given subcommand may read.
LinePool(cmd) == IF cmd = "rustc" THEN DiagnosticLines ELSE FormatLines

\* All sequences over S of length at most n.
SeqsUpTo(S, n) == UNION {[1..k -> S] : k \in 0..n}

(***************************************************************************)
(* The state machine of main.                                              *)
(***************************************************************************)
\* The values main's locals hold when the loop starts.
InitLocals ==
    /\ pos = 1
    /\ pc = "loop"
    /\ annotations_buf = {}
    /\ stdout = << >>
    /\ max_annotation = Notice
    /\ summary_content = << >>
    /\ summary_writer = SummaryWriter_default(command)
    /\ write_summary_calls = 0
    /\ sink_opens = 0
    /\ file = << >>
    /\ exit_code = "none"

Init ==
    /\ command \in Commands
    /\ allow_warnings \in BOOLEAN
    /\ input \in SeqsUpTo(LinePool(command), MaxLines)
    /\ InitLocals

\* The variables a step of the loop writes, from the run state it computed.
StoreRun(run) ==
    /\ annotations_buf' = run.annotations_buf
    /\ stdout' = run.stdout
    /\ max_annotation' = run.max_annotation
    /\ summary_content' = run.summary_content
    /\ summary_writer' = run.summary_writer
    /\ write_summary_calls' = run.write_summary_calls

\* The loop reads a line that does not parse: the line is skipped.
SkipLine ==
    /\ pc = "loop"
    /\ pos <= Len(input)
    /\ ~IsSome(Parse(command, input[pos]))
    /\ pos' = pos + 1
    /\ UNCHANGED <<command, allow_warnings, input, pc, annotations_buf, stdout,
                   max_annotation, summary_content, summary_writer,
                   write_summary_calls, sink_opens, file, exit_code>>

\* The loop reads a record and into_annotations panics: main unwinds.
MissingPrimarySpan ==
    /\ pc = "loop"
    /\ pos <= Len(input)
    /\ IsSome(Parse(command, input[pos]))
    /\ HandleLine(command, CurrentRun, input[pos]).panicked
    /\ pc' = "panicked"
    /\ UNCHANGED <<command, allow_warnings, input, pos, annotations_buf, stdout,
                   max_annotation, summary_content, summary_writer,
                   write_summary_calls, sink_opens, file, exit_code>>

\* The loop reads a record: its new annotations are emitted and, if there is one,
\* its summaries are written.
HandleRecord ==
    /\ pc = "loop"
    /\ pos <= Len(input)
    /\ IsSome(Parse(command, input[pos]))
    /\ LET run == HandleLine(command, CurrentRun, input[pos])
       IN /\ ~run.panicked
          /\ StoreRun(run)
    /\ pos' = pos + 1
    /\ UNCHANGED <<command, allow_warnings, input, pc, sink_opens, file, exit_code>>

\* A variant of OpenSink that may create the summary file while lines remain to
\* be read.
OpenSinkEarly ==
    /\ pc = "loop"
    /\ \/ /\ sink_opens' = sink_opens + 1
          /\ pc' = "preamble"
       \/ /\ pos > Len(input)
          /\ sink_opens' = sink_opens
          /\ pc' = "exit"
    /\ UNCHANGED <<command, allow_warnings, input, pos, annotations_buf, stdout,
                   max_annotation, summary_content, summary_writer,
                   write_summary_calls, file, exit_code>>

\* After the last line: the summary path is resolved and the file created, or
\* no path is set (or File::create fails) and the summary is skipped.
OpenSink ==
    /\ pc = "loop"
    /\ pos > Len(input)
    /\ \/ /\ sink_opens' = sink_opens + 1
          /\ pc' = "preamble"
       \/ /\ sink_opens' = sink_opens
          /\ pc' = "exit"
    /\ UNCHANGED <<command, allow_warnings, input, pos, annotations_buf, stdout,
                   max_annotation, summary_content, summary_writer,
                   write_summary_calls, file, exit_code>>

\* summary_writer.write_preamble(&mut file)
WritePreamble ==
    /\ pc = "preamble"
    /\ file' = file \o write_preamble(command, summary_writer)
    /\ pc' = "content"
    /\ UNCHANGED <<command, allow_warnings, input, pos, annotations_buf, stdout,
                   max_annotation, summary_content, summary_writer,
                   write_summary_calls, sink_opens, exit_code>>

\* file.write_all(summary_content.as_bytes())
WriteContent ==
    /\ pc = "content"
    /\ file' = file \o summary_content
    /\ pc' = "postamble"
    /\ UNCHANGED <<command, allow_warnings, input, pos, annotations_buf, stdout,
                   max_annotation, summary_content, summary_writer,
                   write_summary_calls, sink_opens, exit_code>>

\* summary_writer.write_postamble(&mut file)
WritePostamble ==
    /\ pc = "postamble"
    /\ file' = file \o write_postamble(command, summary_writer)
    /\ pc' = "exit"
    /\ UNCHANGED <<command, allow_warnings, input, pos, annotations_buf, stdout,
                   max_annotation, summary_content, summary_writer,
                   write_summary_calls, sink_opens, exit_code>>

\* A variant of ExitCodeOf that fails only above the threshold.
ExitCodeOfStrict(max, threshold) ==
    IF KindCmp(max, threshold) > 0 THEN "FAILURE" ELSE "SUCCESS"

\* The exit code main returns.
ExitCodeOf(max, threshold) ==
    IF KindCmp(max, threshold) >= 0 THEN "FAILURE" ELSE "SUCCESS"

\* if max_annotation >= annotation_threshold { FAILURE } else { SUCCESS }
Exit ==
    /\ pc = "exit"
    /\ exit_code' = ExitCodeOf(max_annotation, annotation_threshold)
    /\ pc' = "done"
    /\ UNCHANGED <<command, allow_warnings, input, pos, annotations_buf, stdout,
                   max_annotation, summary_content, summary_writer,
                   write_summary_calls, sink_opens, file>>

Next ==
    \/ SkipLine
    \/ MissingPrimarySpan
    \/ HandleRecord
    \/ OpenSink
    \/ WritePreamble
    \/ WriteContent
    \/ WritePostamble
    \/ Exit

Spec == Init /\ [][Next]_vars

(***************************************************************************)
(* A second specification for the formatting of annotations: one record    *)
(* whose texts range over every string of at most MaxMsgLen characters of  *)
(* TextAlphabet, read by the same loop.                                    *)
(***************************************************************************)
TextAlphabet == {"a", "%", NL, CR, SP}

\* Every text over TextAlphabet of length at most MaxMsgLen.
Texts == SeqsUpTo(TextAlphabet, MaxMsgLen)

FormatSubjects(cmd) ==
    IF cmd = "rustc"
    THEN {TextLine, DiagNoPrimary}
         \cup {Diagnostic(t, "warning", <<SpanA>>, None) : t \in Texts}
         \cup {Diagnostic(t, "error", <<SpanA>>, Some(MsgDead)) : t \in Texts}
         \cup {Diagnostic(MsgUnused, "note", <<SpanA>>, Some(t)) : t \in Texts}
    ELSE {TextLine}
         \cup {FormatMismatchesArray(
                   <<FormatMismatches(AbsSrcA, <<FormatMismatch(3, 5, t)>>)>>) :
               t \in Texts}

InitFormat ==
    /\ command \in Commands
    /\ allow_warnings \in BOOLEAN
    /\ input \in {<<line>> : line \in FormatSubjects(command)}
    /\ InitLocals

SpecFormat == InitFormat /\ [][Next]_vars

(***************************************************************************)
(* Helpers of the properties.                                              *)
(***************************************************************************)
\* The annotations a parsed line converts to (none for a line that does not parse
\* or whose conversion panics).
AnnotationsOfLine(line) ==
    IF IsSome(Parse(command, line))
    THEN into_annotations(command, Unwrap(Parse(command, line))).annotations
    ELSE << >>

\* The elements of a sequence.
Range(s) == {s[i] : i \in 1..Len(s)}

\* The annotations of the lines the loop has processed so far.
ProcessedAnnotations == UNION {Range(AnnotationsOfLine(input[i])) : i \in 1..(pos - 1)}

\* Every reordering of a sequence.
Reorderings(s) ==
    {[i \in 1..Len(s) |-> s[p[i]]] :
        p \in {q \in [1..Len(s) -> 1..Len(s)] : \A i, j \in 1..Len(s) : q[i] = q[j] => i = j}}

\* The run of the loop over the lines in another order.
RunOf(lines) == RunLines(command, InitialRun(command), lines)

\* What the ordering compares: the path, the line, the column and the kind.
OrderKey(a) == <<Components(a.file), a.line, a.col, a.kind>>

\* The kind an emitted line announces: its token follows the leading "::".
LineKind(line) ==
    CASE line[3] = "e" -> Error
      [] line[3] = "w" -> Warning
      [] line[3] = "n" -> Notice

\* Whether text s holds text p at index i.
HasAt(s, p, i) == i + Len(p) - 1 <= Len(s) /\ SubSeq(s, i, i + Len(p) - 1) = p

\* Whether text s holds text p somewhere.
Contains(s, p) == \E i \in 1..Len(s) : HasAt(s, p, i)

\* The text after the last "::" of a line.
AfterFinalColonColon(line) ==
    LET last == CHOOSE i \in 1..Len(line) :
                    /\ HasAt(line, ColonColon, i)
                    /\ \A j \in (i + 1)..Len(line) : ~HasAt(line, ColonColon, j)
    IN SubSeq(line, last + 2, Len(line))

\* Number of occurrences of the characters of set cs in text s.
CountOf(s, cs) == Cardinality({i \in 1..Len(s) : s[i] \in cs})

\* The message without its leading and trailing whitespace, by positions.
Trimmed(m) ==
    LET solid == {i \in 1..Len(m) : m[i] \notin {SP, NL, CR, "\t"}}
    IN IF solid = {} THEN << >>
       ELSE SubSeq(m, CHOOSE i \in solid : \A j \in solid : i <= j,
                      CHOOSE i \in solid : \A j \in solid : j <= i)

\* The encoding of one character of a message.
EncodedChar(c) ==
    CASE c = "%" -> <<"%", "2", "5">>
      [] c = NL -> <<"%", "0", "A">>
      [] c = CR -> <<"%", "0", "D">>
      [] OTHER -> <<c>>

\* The message encoded character by character.
EncodedCharwise(m) == Concat([i \in 1..Len(Trimmed(m)) |-> EncodedChar(Trimmed(m)[i])])

(***************************************************************************)
(* Properties.                                                             *)
(***************************************************************************)

\* C1: the dedup set is keyed by structural equality over all fields: an
\* annotation of a processed record is left out of the set and of the output
\* only when an annotation equal to it in every field went in before, so the
\* set holds every annotation processed so far and one line was emitted for each
\* distinct one.
C1_DedupByStructuralEquality ==
    /\ annotations_buf = ProcessedAnnotations
    /\ Len(stdout) = Cardinality(ProcessedAnnotations)

\* C2: for every reordering of the input lines, the run over the reordered lines
\* emits the same lines in the same order as this run, and ends with the same
\* summary state.
C2_PermutationDeterminism ==
    pc = "done" =>
        \A lines \in Reorderings(input) :
            LET other == RunOf(lines)
            IN /\ other.stdout = stdout
               /\ other.summary_writer = summary_writer

C4_StrictTotalOrder ==
    /\ \A a, b \in ProcessedAnnotations :
        /\ (cmp(a, b) = 0) <=> (a = b)
        /\ cmp(a, b) = 0 - cmp(b, a)
        /\ PathCmp(a.file, b.file) < 0 => cmp(a, b) < 0
        /\ PathCmp(a.file, b.file) = 0 /\ a.line < b.line => cmp(a, b) < 0
        /\ (PathCmp(a.file, b.file) = 0 /\ a.line = b.line /\ a.col = b.col
            /\ a.kind > b.kind) => cmp(a, b) < 0
        /\ \A c \in ProcessedAnnotations :
               cmp(a, b) <= 0 /\ cmp(b, c) <= 0 => cmp(a, c) <= 0
    /\ pc = "done" =>
           \A lines \in Reorderings(input) :
               RunOf(lines).annotations_buf = annotations_buf

\* C5: the text after the final "::" of every emitted line is the message trimmed
\* of leading and trailing whitespace, with each "%" as "%25", each newline as
\* "%0A" and each carriage return as "%0D": every "%" of it opens exactly one
\* escape of an original character, so no escape is encoded a second time.
C5_MessageEncoding ==
    \A k \in 1..Len(stdout) :
        LET message == AnnotationsOfLine(input[1])[k].message
            text == AfterFinalColonColon(stdout[k])
        IN /\ text = EncodedCharwise(message)
           /\ CountOf(text, {"%"}) = CountOf(Trimmed(message), {"%", NL, CR})
           /\ CountOf(text, {NL, CR}) = 0
           /\ ~Contains(text, <<"%", "2", "5", "0">>)

\* C5, witness: a line was emitted for a message that holds a "%", a newline and
\* whitespace to trim.
C5_Witness ==
    /\ Len(stdout) = 1
    /\ LET message == AnnotationsOfLine(input[1])[1].message
       IN /\ CountOf(message, {"%"}) = 1
          /\ CountOf(Trimmed(message), {NL}) = 1
          /\ Len(Trimmed(message)) < Len(message)

C7_ScenarioALine ==
    (command = "rustc" /\ input = <<DiagA>> /\ pos > 1)
        => stdout = <<ScenarioALineClaimed>>

\* C7, amended: the run over the single diagnostic of scenario A emits exactly the
\* line "::warning file=src/a.rs,line=3,endLine=3,col=1,endColumn=5::unused variable":
\* the end line of the span is part of it.
C7_ScenarioALineWithEndLine ==
    (command = "rustc" /\ input = <<DiagA>> /\ pos > 1)
        => stdout = <<ScenarioALineEmitted>>

\* C7, witness: the run over the diagnostic of scenario A has ended.
C7_Witness ==
    /\ command = "rustc"
    /\ input = <<DiagA>>
    /\ pc = "done"
    /\ Len(stdout) = 1

\* Whether a line is an array holding exactly two mismatches, of the same file,
\* whose original line ranges overlap.
TwoOverlappingMismatches(line) ==
    /\ line.type = "FormatMismatches"
    /\ Len(AnnotationsOfLine(line)) = 2
    /\ LET a == AnnotationsOfLine(line)[1]
           b == AnnotationsOfLine(line)[2]
       IN /\ a.file = b.file
          /\ a # b
          /\ a.line <= Unwrap(b.end_line)
          /\ b.line <= Unwrap(a.end_line)

\* C8: after the run has read an array of two mismatch records of one file whose
\* line ranges overlap, two distinct lines are emitted, both warnings titled
\* "Format mismatch", and the summary holds one heading for the file followed by
\* the two start lines.
C8_ScenarioBOverlap ==
    (command = "fmt" /\ pos = 2 /\ TwoOverlappingMismatches(input[1])) =>
        LET a == AnnotationsOfLine(input[1])[1]
            b == AnnotationsOfLine(input[1])[2]
        IN /\ Len(stdout) = 2
           /\ stdout[1] # stdout[2]
           /\ \A k \in 1..Len(stdout) :
                  /\ LineKind(stdout[k]) = Warning
                  /\ Contains(stdout[k], TitleEq \o FormatMismatchTitle \o ColonColon)
           /\ summary_content =
                  <<FileItemPrefix \o a.file \o <<BT>>,
                    LineItemPrefix \o Decimal(a.line),
                    LineItemPrefix \o Decimal(b.line)>>

\* The highest kind among the emitted lines, Notice when there is none.
HighestEmitted ==
    IF \E k \in 1..Len(stdout) : LineKind(stdout[k]) = Error THEN Error
    ELSE IF \E k \in 1..Len(stdout) : LineKind(stdout[k]) = Warning THEN Warning
    ELSE Notice

\* C9: the tracked maximum is the highest kind among the lines emitted so far
\* (Notice when none), and a run that reaches its end fails exactly when a line of
\* kind at least the threshold was emitted: Warning by default, Error under
\* --allow-warnings.
C9_ExitThreshold ==
    /\ max_annotation = HighestEmitted
    /\ pc = "done" =>
           (exit_code = "FAILURE" <=>
               \E k \in 1..Len(stdout) :
                   LineKind(stdout[k]) >= (IF allow_warnings THEN Error ELSE Warning))
    /\ pc # "done" => exit_code = "none"

\* C9, witness: a run under --allow-warnings that emitted a warning and a notice
\* has ended with success.
C9_Witness ==
    /\ pc = "done"
    /\ allow_warnings
    /\ exit_code = "SUCCESS"
    /\ \E k \in 1..Len(stdout) : LineKind(stdout[k]) = Warning
    /\ \E k \in 1..Len(stdout) : LineKind(stdout[k]) = Notice

\* Whether a line is a diagnostic none of whose spans is primary.
NoSpanIsPrimary(line) ==
    /\ line.type = "Diagnostic"
    /\ \A i \in 1..Len(line.spans) : ~line.spans[i].is_primary

\* C10: a diagnostic without a primary span aborts the run at that record: the
\* step that reads it emits nothing, calls write_summary zero times and does not
\* move to the next line, no step follows it, and the summary file is never
\* created or written.
C10_MissingPrimaryIsFatal ==
    /\ [](pc = "panicked" =>
            /\ sink_opens = 0
            /\ file = << >>
            /\ exit_code = "none"
            /\ NoSpanIsPrimary(input[pos]))
    /\ [][(/\ pc = "loop"
           /\ pos <= Len(input)
           /\ command = "rustc"
           /\ NoSpanIsPrimary(input[pos]))
          => (/\ pc' = "panicked"
              /\ pos' = pos
              /\ stdout' = stdout
              /\ write_summary_calls' = write_summary_calls
              /\ summary_content' = summary_content
              /\ summary_writer' = summary_writer
              /\ annotations_buf' = annotations_buf)]_vars
    /\ [][pc # "panicked"]_vars

\* C10, witness: the run has aborted at its first line, a diagnostic with a primary
\* span remains unread and nothing was written.
C10_Witness ==
    /\ pc = "panicked"
    /\ pos = 1
    /\ Len(input) = 2
    /\ input[2].type = "Diagnostic"
    /\ ~NoSpanIsPrimary(input[2])
    /\ stdout = << >>
    /\ write_summary_calls = 0


\* Number of rows the summary text holds for a kind (diagnostic path).
RowsOfKind(kind) ==
    Cardinality({i \in 1..Len(summary_content) :
                    HasAt(summary_content[i], <<"|">> \o KindDisplay(kind) \o <<"|">>, 1)})

\* Number of line items the summary text holds (mismatch path).
LineItems ==
    Cardinality({i \in 1..Len(summary_content) :
                    HasAt(summary_content[i], LineItemPrefix, 1)})

\* The preamble whose totals count every summary folded into the summary text.
PreambleOfFoldedSummaries ==
    IF command = "rustc"
    THEN DiagnosticSummaryWriter_write_preamble(
             [kind_count |-> [kind \in AnnotationKind |-> RowsOfKind(kind)]])
    ELSE FormatMismatchSummaryWriter_write_preamble([count |-> LineItems])

\* What the summary file holds at each point of main: nothing until the preamble
\* is written, then the preamble, then the preamble and the body, then these and
\* the postamble.
FileFollowsLifecycle ==
    /\ pc \in {"loop", "panicked", "preamble"} => file = << >>
    /\ pc = "content" => file = PreambleOfFoldedSummaries
    /\ pc = "postamble" => file = PreambleOfFoldedSummaries \o summary_content
    /\ (pc \in {"exit", "done"} /\ sink_opens > 0) =>
           file = PreambleOfFoldedSummaries \o summary_content
                  \o write_postamble(command, summary_writer)
    /\ sink_opens = 0 => file = << >>

\* C11: every write_summary call comes before write_preamble, the summary file is
\* opened exactly once in every run, only after the last line was processed, and
\* then receives the preamble with the totals of every folded summary, the body
\* and the postamble, in this order and once each.
C11_LifecycleOrdering ==
    /\ pc = "done" => sink_opens = 1
    /\ sink_opens > 0 => pos > Len(input) /\ pc \notin {"loop", "panicked"}
    /\ FileFollowsLifecycle

\* C11, amended: the summary file is opened at most once in a run (not at all when
\* no summary path is set, the file cannot be created, or the run aborts), and
\* only after the last line was processed; write_summary is called only while
\* lines are read and the file is not open; once open, the file receives the
\* preamble with the totals of every folded summary, the body and the postamble,
\* in this order and once each.
C11_LifecycleOrderingAtMostOnce ==
    /\ [](sink_opens <= 1)
    /\ [](sink_opens > 0 => pos > Len(input) /\ pc \notin {"loop", "panicked"})
    /\ [](pc \in {"preamble", "content", "postamble"} => sink_opens = 1)
    /\ []FileFollowsLifecycle
    /\ [][(\/ write_summary_calls' # write_summary_calls
           \/ summary_writer' # summary_writer
           \/ summary_content' # summary_content)
          => (pc = "loop" /\ pc' = "loop" /\ sink_opens = 0 /\ file = << >>)]_vars
    /\ [][sink_opens' # sink_opens => (pc = "loop" /\ pc' = "preamble")]_vars
    /\ [][/\ pc = "preamble" => pc' = "content"
          /\ pc = "content" => pc' = "postamble"
          /\ pc = "postamble" => pc' = "exit"
          /\ pc \in {"exit", "done"} => file' = file]_vars

\* C11, witness: a run that folded two summaries in has ended with the summary
\* file written.
C11_Witness ==
    /\ pc = "done"
    /\ sink_opens = 1
    /\ write_summary_calls = 2
    /\ Len(summary_content) >= 2
    /\ file = PreambleOfFoldedSummaries \o summary_content

\* C12: the totals of the summary writer equal the number of emitted annotation
\* lines: per kind on the diagnostic path, the mismatch count on the mismatch
\* path.
C12_SummaryTotalsAgree ==
    IF command = "rustc"
    THEN \A kind \in AnnotationKind :
             summary_writer.kind_count[kind] =
                 Cardinality({k \in 1..Len(stdout) : LineKind(stdout[k]) = kind})
    ELSE summary_writer.count = Len(stdout)
=============================================================================
